---- MODULE Spec2Model ----
(***************************************************************************)
(* habitica_planner: the recursive Task tree (construction from a decoded  *)
(* YAML value, serialization back, is_new, push against the remote todo    *)
(* service) and the `push` command that drives it.                         *)
(*                                                                         *)
(* Decoded document values are tagged records of one shape:                *)
(*   t = "none" | "str" | "num" | "list" | "dict"                          *)
(*   s      the text of a str, the (first) key of a dict                   *)
(*   n      a number in HALVES (1 is 0.5, 2 is 1.0, 4 is 2.0), or the      *)
(*          number of keys of a dict                                       *)
(*   items  the elements of a list, the value of a single-key dict         *)
(***************************************************************************)
EXTENDS Integers, Sequences, FiniteSets, TLC

\* ------------------------------------------------------------ bounds
\* entries in a flat list of control entries
MaxLen == 2
\* nodes in a nested document of plain tasks
MaxNodes == 4
\* push calls on one tree (library use)
MaxPushes == 2

\* ------------------------------------------------------------ values
NoneV == [t |-> "none", s |-> "", n |-> 0, items |-> <<>>]
Str(x) == [t |-> "str", s |-> x, n |-> 0, items |-> <<>>]
Num(h) == [t |-> "num", s |-> "", n |-> h, items |-> <<>>]
List(xs) == [t |-> "list", s |-> "", n |-> 0, items |-> xs]
\* a mapping with one key k and value v
Dict1(k, v) == [t |-> "dict", s |-> k, n |-> 1, items |-> <<v>>]
\* a mapping with len /= 1 keys (its content is never read)
DictN(len) == [t |-> "dict", s |-> "", n |-> len, items |-> <<>>]

\* Python truth value of a decoded value
Truthy(v) ==
    CASE v.t = "none" -> FALSE
      [] v.t = "str" -> v.s /= ""
      [] v.t = "num" -> v.n /= 0
      [] v.t = "list" -> v.items /= <<>>
      [] OTHER -> v.n /= 0

\* the literal list [0.5, 1, 1.5, 2] of Task.__init__, in halves
ValidPriorities == {1, 2, 3, 4}
\* the default data=1.0 / self.priority = 1.0
DefaultPriority == Num(2)

\* ------------------------------------------------------------ Task
\* the attributes __init__ creates, before data is read
NewTask(name) ==
    [name |-> name, checklist |-> <<>>, priority |-> DefaultPriority,
     id |-> NoneV, checklist_id |-> NoneV]

Ok(task) == [ok |-> TRUE, exc |-> "", task |-> task]
Raise(e) == [ok |-> FALSE, exc |-> e, task |-> NewTask(NoneV)]

\* setattr(self, k, v)
SetAttr(self, k, v) == [self EXCEPT ![k] = v]

\* e[k] in [0.5, 1, 1.5, 2]
PriorityAccepted(v) == v.t = "num" /\ v.n \in ValidPriorities

\* the scalar branch of __init__: data is not a list
ScalarData(self, data) == [self EXCEPT !.priority = data]

RECURSIVE Task(_, _), TaskLoop(_, _, _)
\* Task.__init__(name, data): the task built, or the exception raised
Task(name, data) ==
    IF data.t /= "list"
    THEN Ok(ScalarData(NewTask(name), data))
    ELSE TaskLoop(NewTask(name), data.items, 1)

\* the body of `for e in data`, from element i on
TaskLoop(self, data, i) ==
    IF i > Len(data) THEN Ok(self)
    ELSE LET e == data[i] IN
      CASE e.t = "str" ->
             LET c == Task(e, DefaultPriority)
             IN TaskLoop([self EXCEPT !.checklist = Append(@, c.task)], data, i + 1)
        [] e.t = "dict" ->
             IF e.n /= 1 THEN Raise("ValueError")
             ELSE LET k == e.s
                      v == e.items[1]
                  IN IF k = "priority"
                     THEN IF PriorityAccepted(v)
                          THEN TaskLoop([self EXCEPT !.priority = v], data, i + 1)
                          ELSE Raise("ValueError")
                     ELSE LET self1 == IF k \in {"id", "checklist_id"}
                                       THEN SetAttr(self, k, v) ELSE self
                          IN IF v.t \in {"list", "num"}
                             THEN LET c == Task(Str(k), v)
                                  IN IF c.ok
                                     THEN TaskLoop([self1 EXCEPT !.checklist = Append(@, c.task)],
                                                   data, i + 1)
                                     ELSE c
                             ELSE Raise("ValueError")
        [] OTHER -> TaskLoop(self, data, i + 1)

\* the entries __iter__ yields for the task's own properties
PropEntries(self, props) ==
    LET RECURSIVE Go(_)
        Go(i) == IF i > Len(props) THEN <<>>
                 ELSE (IF Truthy(self[props[i]])
                       THEN <<Dict1(props[i], self[props[i]])>> ELSE <<>>) \o Go(i + 1)
    IN Go(1)

RECURSIVE Iter(_)
\* list(task): Task.__iter__
Iter(self) ==
    LET RECURSIVE Children(_)
        Children(i) ==
            IF i > Len(self.checklist) THEN <<>>
            ELSE LET task == self.checklist[i]
                 IN (IF Truthy(task.name)
                     THEN <<Dict1(task.name.s, List(Iter(task)))>> ELSE <<>>)
                    \o Children(i + 1)
    IN (IF Truthy(self.name)
        THEN PropEntries(self, <<"id", "checklist_id", "priority">>) ELSE <<>>)
       \o Children(1)

\* the result of a call that may raise
Returned(v) == [raised |-> FALSE, exc |-> "", value |-> v]
Raised(e) == [raised |-> TRUE, exc |-> e, value |-> FALSE]
NotCalled == [raised |-> FALSE, exc |-> "not called", value |-> FALSE]

\* the attributes a Task object has
HasAttr(self, attr) == attr \in DOMAIN self

\* a slip that would make is_new stop at the task itself
is_new_shallow(self) ==
    Returned(IF Truthy(self.name) THEN self.id = NoneV ELSE TRUE)

RECURSIVE is_new(_)
\* Task.is_new
is_new(self) ==
    LET n == IF Truthy(self.name) THEN self.id = NoneV ELSE TRUE
        RECURSIVE Loop(_, _)
        \* `for task in self.checklists: n = n and task.is_new()`
        Loop(acc, i) ==
            IF i > Len(self.checklists) THEN Returned(acc)
            ELSE IF ~acc THEN Loop(acc, i + 1)
            ELSE LET r == is_new(self.checklists[i])
                 IN IF r.raised THEN r ELSE Loop(r.value, i + 1)
    IN IF HasAttr(self, "checklists") THEN Loop(n, 1) ELSE Raised("AttributeError")

\* ------------------------------------------------------------ tree access
\* the task reached from `task` by the child indexes of `path`
RECURSIVE NodeAt(_, _)
NodeAt(task, path) ==
    IF path = <<>> THEN task ELSE NodeAt(task.checklist[Head(path)], Tail(path))

\* `task` with attribute f of the node at `path` set to v
RECURSIVE SetAt(_, _, _, _)
SetAt(task, path, f, v) ==
    IF path = <<>> THEN [task EXCEPT ![f] = v]
    ELSE [task EXCEPT !.checklist =
            [@ EXCEPT ![Head(path)] = SetAt(task.checklist[Head(path)], Tail(path), f, v)]]

\* the paths of all tasks of the tree
RECURSIVE Paths(_)
Paths(task) ==
    {<<>>} \cup UNION {{<<i>> \o p : p \in Paths(task.checklist[i])} :
                         i \in 1..Len(task.checklist)}

\* ------------------------------------------------------------ documents
SeqsUpTo(S, n) == UNION {[1..k -> S] : k \in 0..n}

\* entries that steer construction: text, priority, identifiers, scalars, malformed
ControlEntries ==
    {Str("a"), Str(""), Str("priority"), Str("id"),
     Dict1("priority", Num(4)), Dict1("priority", Num(6)),
     Dict1("id", Str("x1")), Dict1("checklist_id", Str("x2")), Dict1("id", Num(14)),
     Dict1("a", Num(1)), Dict1("a", Num(6)), Dict1("a", Str("text")), DictN(2)}

\* a flat list of control entries, at the top level or under one task "a"
ControlDocs ==
    UNION {{List(l), List(<<Dict1("a", List(l))>>)} : l \in SeqsUpTo(ControlEntries, MaxLen)}

TreeNames == {"a", "b", ""}
TreeKeys == {"a", ""}

\* nested plain tasks: the entries of exactly n nodes, the lists of exactly n nodes
RECURSIVE TreeEntries(_), TreeLists(_)
TreeEntries(n) ==
    IF n = 1 THEN {Str(x) : x \in TreeNames}
    ELSE {Dict1(k, List(l)) : k \in TreeKeys, l \in TreeLists(n - 1)}
TreeLists(n) ==
    IF n = 0 THEN {<<>>}
    ELSE UNION {{<<e>> \o l : e \in TreeEntries(k), l \in TreeLists(n - k)} : k \in 1..n}

TreeDocs == {List(l) : l \in UNION {TreeLists(n) : n \in 0..MaxNodes}}

\* what yaml.load may return: nothing (an empty file) or a list
Docs == {NoneV} \cup ControlDocs \cup TreeDocs

\* what the user may type at the prompt
Answers == {"y", "n"}

\* ------------------------------------------------------------ state
VARIABLES
    entry,      \* "main": the push command; "api": Task used as a library
    d,          \* the decoded document
    stdin,      \* what the user types when asked
    pc,         \* "start" | "built" | "push" | "raised" | "failed" | "exited"
    built,      \* "no" | "ok" | "raised": Task(data=d)
    t,          \* the root Task
    isnew,      \* the last t.is_new()
    out,        \* the last list(t)
    t2,         \* the last Task(data=list(t))
    stack,      \* the frames of Task.push, innermost last
    calls,      \* the requests sent to the remote service, in order
    answered,   \* how many of them were answered
    remote,     \* the remote service: the tasks created and the ids issued
    pushes,     \* the root push calls started
    exc,        \* the exception that ended the last operation, or ""
    exitcode    \* the exit status of the command, -1 while it runs

vars == <<entry, d, stdin, pc, built, t, isnew, out, t2, stack, calls, answered,
          remote, pushes, exc, exitcode>>

NotParsed == [ok |-> FALSE, exc |-> "not called", task |-> NewTask(NoneV)]

Init ==
    /\ entry \in {"main", "api"}
    /\ d \in Docs
    /\ stdin \in (IF entry = "main" THEN Answers ELSE {""})
    /\ pc = "start"
    /\ built = "no"
    /\ t = NewTask(NoneV)
    /\ isnew = NotCalled
    /\ out = NoneV
    /\ t2 = NotParsed
    /\ stack = <<>>
    /\ calls = <<>>
    /\ answered = 0
    /\ remote = [tasks |-> <<>>, issued |-> 0]
    /\ pushes = 0
    /\ exc = ""
    /\ exitcode = -1

\* a frame of Task.push for the task at `path`
Frame(path) == [path |-> path, pc |-> "begin", i |-> 1, task_number |-> 0]

\* an identifier the service issues
NewId(k) == Str("u" \o ToString(k))

\* ------------------------------------------------------------ Task.push
\* planner.py line 105 ends the note with one `)` too many, so the file as it
\* stands does not compile; push is modelled as written without that character.
\* The service answers a checklist post with the task's whole checklist, one
\* entry per item created so far.
\* the order in which `for task in Progress(self.checklist)` visits n children
ReversedOrder(n) == [i \in 1..n |-> n + 1 - i]
RecursionOrder(n) == [i \in 1..n |-> i]

\* the first named child at index i or later, 0 when there is none
RECURSIVE NextNamed(_, _)
NextNamed(cl, i) ==
    IF i > Len(cl) THEN 0
    ELSE IF Truthy(cl[i].name) THEN i ELSE NextNamed(cl, i + 1)

\* a request to the remote service
Call(op, path, text, taskId) ==
    [op |-> op, path |-> path, text |-> text, taskId |-> taskId, push |-> pushes]

\* an uncaught exception leaves push; in the command it ends the process, and
\* a library caller is taken to stop using the tree
PushRaises(e) ==
    /\ stack' = <<>>
    /\ exc' = e
    /\ pc' = IF entry = "main" THEN "exited" ELSE "raised"
    /\ exitcode' = IF entry = "main" THEN 1 ELSE exitcode

\* the checklist loop of push from child `from` on: the next named child's
\* request, or the end of the loop
ChecklistLoop(tree, f, from) ==
    LET self == NodeAt(tree, f.path)
        j == NextNamed(self.checklist, from)
        rest == SubSeq(stack, 1, Len(stack) - 1)
    IN IF j = 0
       THEN /\ stack' = Append(rest, [f EXCEPT !.pc = "loop", !.i = 1])
            /\ calls' = calls
       ELSE /\ stack' = Append(rest, [f EXCEPT !.pc = "await_item", !.i = j,
                                               !.task_number = f.task_number + 1])
            /\ calls' = Append(calls, Call("createChecklistItem", f.path \o <<j>>,
                                           self.checklist[j].name.s, self.id))

Top == stack[Len(stack)]

\* push of a named task: api.tasks.user.post is sent
PushNamed ==
    /\ pc = "push" /\ stack /= <<>> /\ Top.pc = "begin"
    /\ Truthy(NodeAt(t, Top.path).name)
    /\ calls' = Append(calls, Call("createTask", Top.path, NodeAt(t, Top.path).name.s, NoneV))
    /\ stack' = [stack EXCEPT ![Len(stack)].pc = "await_task"]
    /\ UNCHANGED <<entry, d, stdin, pc, built, t, isnew, out, t2, answered, remote,
                   pushes, exc, exitcode>>

\* push of a task without a name: only the recursion
PushUnnamed ==
    /\ pc = "push" /\ stack /= <<>> /\ Top.pc = "begin"
    /\ ~Truthy(NodeAt(t, Top.path).name)
    /\ stack' = [stack EXCEPT ![Len(stack)].pc = "loop"]
    /\ UNCHANGED <<entry, d, stdin, pc, built, t, isnew, out, t2, calls, answered,
                   remote, pushes, exc, exitcode>>

\* the service answers createTask: self.id = resp['id'], then the checklist loop
TaskCreated ==
    /\ pc = "push" /\ stack /= <<>> /\ Top.pc = "await_task"
    /\ LET id == NewId(remote.issued + 1)
           tree == SetAt(t, Top.path, "id", id)
       IN /\ remote' = [tasks |-> Append(remote.tasks, [id |-> id, checklist |-> <<>>]),
                        issued |-> remote.issued + 1]
          /\ t' = tree
          /\ ChecklistLoop(tree, [Top EXCEPT !.task_number = 0], 1)
    /\ answered' = answered + 1
    /\ UNCHANGED <<entry, d, stdin, pc, built, isnew, out, t2, pushes, exc, exitcode>>

\* the service answers a checklist post with the task's checklist so far:
\* task.checklist_id = resp['checklist'][task_number]['id']
ItemCreated ==
    /\ pc = "push" /\ stack /= <<>> /\ Top.pc = "await_item"
    /\ LET self == NodeAt(t, Top.path)
           k == CHOOSE k \in 1..Len(remote.tasks) : remote.tasks[k].id = self.id
           id == NewId(remote.issued + 1)
           checklist == Append(remote.tasks[k].checklist, id)
       IN /\ remote' = [tasks |-> [remote.tasks EXCEPT ![k].checklist = checklist],
                        issued |-> remote.issued + 1]
          /\ IF Top.task_number < Len(checklist)
             THEN LET tree == SetAt(t, Top.path \o <<Top.i>>, "checklist_id",
                                    checklist[Top.task_number + 1])
                  IN /\ t' = tree
                     /\ ChecklistLoop(tree, Top, Top.i + 1)
                     /\ UNCHANGED <<pc, exc, exitcode>>
             ELSE /\ PushRaises("IndexError")
                  /\ UNCHANGED <<t, calls>>
    /\ answered' = answered + 1
    /\ UNCHANGED <<entry, d, stdin, built, isnew, out, t2, pushes>>

\* the service, or the way to it, fails: the request raises
RemoteFails ==
    /\ pc = "push" /\ stack /= <<>> /\ Top.pc \in {"await_task", "await_item"}
    /\ PushRaises("RemoteError")
    /\ answered' = answered + 1
    /\ UNCHANGED <<entry, d, stdin, built, t, isnew, out, t2, calls, remote, pushes>>

\* `for task in Progress(self.checklist): task.push(api)`: the next child
PushChild ==
    /\ pc = "push" /\ stack /= <<>> /\ Top.pc = "loop"
    /\ Top.i <= Len(NodeAt(t, Top.path).checklist)
    /\ LET n == Len(NodeAt(t, Top.path).checklist)
           child == RecursionOrder(n)[Top.i]
       IN stack' = Append([stack EXCEPT ![Len(stack)].i = Top.i + 1],
                          Frame(Top.path \o <<child>>))
    /\ UNCHANGED <<entry, d, stdin, pc, built, t, isnew, out, t2, calls, answered,
                   remote, pushes, exc, exitcode>>

\* push returns; the return of the root's push ends t.push(self.api), and the
\* command prints list(t) and ends
PushReturn ==
    /\ pc = "push" /\ stack /= <<>> /\ Top.pc = "loop"
    /\ Top.i > Len(NodeAt(t, Top.path).checklist)
    /\ stack' = SubSeq(stack, 1, Len(stack) - 1)
    /\ IF Len(stack) > 1
       THEN UNCHANGED <<pc, out, exitcode>>
       ELSE IF entry = "main"
            THEN pc' = "exited" /\ out' = List(Iter(t)) /\ exitcode' = 0
            ELSE pc' = "built" /\ UNCHANGED <<out, exitcode>>
    /\ UNCHANGED <<entry, d, stdin, built, t, isnew, t2, calls, answered, remote,
                   pushes, exc>>

\* ------------------------------------------------------------ PushData.main
\* r in ['n', _("n")]
Declines(r) == r = "n"

\* main from yaml.load to the first request of t.push, or to its end
MainRun ==
    /\ entry = "main" /\ pc = "start"
    /\ LET r == Task(NoneV, d)
           n == is_new(r.task)
       IN IF ~Truthy(d)
          THEN /\ pc' = "exited" /\ exitcode' = 1
               /\ UNCHANGED <<built, t, isnew, stack, pushes, exc>>
          ELSE IF ~r.ok
          THEN /\ pc' = "exited" /\ exitcode' = 1 /\ exc' = r.exc /\ built' = "raised"
               /\ UNCHANGED <<t, isnew, stack, pushes>>
          ELSE /\ built' = "ok" /\ t' = r.task /\ isnew' = n
               /\ IF n.raised
                  THEN /\ pc' = "exited" /\ exitcode' = 1 /\ exc' = n.exc
                       /\ UNCHANGED <<stack, pushes>>
                  ELSE IF ~n.value \/ Declines(stdin)
                  THEN /\ pc' = "exited" /\ exitcode' = 1
                       /\ UNCHANGED <<stack, pushes, exc>>
                  ELSE /\ pc' = "push" /\ stack' = <<Frame(<<>>)>> /\ pushes' = pushes + 1
                       /\ UNCHANGED <<exc, exitcode>>
    /\ UNCHANGED <<entry, d, stdin, out, t2, calls, answered, remote>>

\* ------------------------------------------------------------ library use
\* t = Task(data=d)
Construct ==
    /\ entry = "api" /\ pc = "start"
    /\ LET r == Task(NoneV, d)
       IN IF r.ok
          THEN pc' = "built" /\ built' = "ok" /\ t' = r.task /\ exc' = exc
          ELSE pc' = "failed" /\ built' = "raised" /\ t' = t /\ exc' = r.exc
    /\ UNCHANGED <<entry, d, stdin, isnew, out, t2, stack, calls, answered, remote,
                   pushes, exitcode>>

\* t.is_new()
IsNew ==
    /\ entry = "api" /\ pc = "built"
    /\ isnew' = is_new(t)
    /\ out' = NoneV /\ t2' = NotParsed
    /\ UNCHANGED <<entry, d, stdin, pc, built, t, stack, calls, answered, remote,
                   pushes, exc, exitcode>>

\* Task(data=list(t))
Reparse ==
    /\ entry = "api" /\ pc = "built"
    /\ out' = List(Iter(t))
    /\ t2' = Task(NoneV, List(Iter(t)))
    /\ isnew' = NotCalled
    /\ UNCHANGED <<entry, d, stdin, pc, built, t, stack, calls, answered, remote,
                   pushes, exc, exitcode>>

\* t.push(api)
PushStart ==
    /\ entry = "api" /\ pc = "built" /\ pushes < MaxPushes
    /\ pc' = "push" /\ stack' = <<Frame(<<>>)>> /\ pushes' = pushes + 1
    /\ exc' = "" /\ isnew' = NotCalled /\ out' = NoneV /\ t2' = NotParsed
    /\ UNCHANGED <<entry, d, stdin, built, t, calls, answered, remote, exitcode>>

Next ==
    \/ MainRun
    \/ Construct
    \/ IsNew
    \/ Reparse
    \/ PushStart
    \/ PushNamed
    \/ PushUnnamed
    \/ TaskCreated
    \/ ItemCreated
    \/ RemoteFails
    \/ PushChild
    \/ PushReturn

Spec == Init /\ [][Next]_vars

\* ------------------------------------------------------------ properties
Named(task) == Truthy(task.name)
NamedPaths(tree) == {p \in Paths(tree) : Named(NodeAt(tree, p))}
Parent(p) == SubSeq(p, 1, Len(p) - 1)
\* the tree the document decodes to, as first constructed
Parsed == Task(NoneV, d)
Ended == pc \in {"built", "raised", "exited"}

\* no text entry and no key of the entries is "priority", "id" or "checklist_id"
RECURSIVE NoReservedNames(_)
NoReservedNames(l) ==
    \A i \in 1..Len(l) :
      /\ l[i].t \in {"str", "dict"} => l[i].s \notin {"priority", "id", "checklist_id"}
      /\ (l[i].t = "dict" /\ l[i].n = 1 /\ l[i].items[1].t = "list") =>
            NoReservedNames(l[i].items[1].items)

\* C1: every task that construction returns has a priority of {0.5, 1, 1.5, 2}
\* (shown on documents of plain task names); a valid p given as {name: p} or
\* as a {"priority": p} entry is accepted and becomes the task's priority.
C1_PriorityValidated ==
    built /= "no" =>
      /\ (built = "ok" /\ d.t = "list" /\ NoReservedNames(d.items)) =>
           \A p \in Paths(t) \ {<<>>} : PriorityAccepted(NodeAt(t, p).priority)
      /\ \A h \in ValidPriorities :
           /\ d = List(<<Dict1("a", Num(h))>>) =>
                built = "ok" /\ t.checklist[1].priority = Num(h)
           /\ d = List(<<Dict1("a", List(<<Dict1("priority", Num(h))>>))>>) =>
                built = "ok" /\ t.checklist[1].priority = Num(h)

\* a document of text entries, {name: priority}, {name: [..]} and
\* {"priority": p} entries only, with priorities of the valid set
RECURSIVE PlainEntries(_)
PlainEntries(l) ==
    \A i \in 1..Len(l) :
      \/ l[i].t = "str"
      \/ /\ l[i].t = "dict" /\ l[i].n = 1
         /\ IF l[i].s = "priority" THEN PriorityAccepted(l[i].items[1])
            ELSE /\ l[i].s \notin {"id", "checklist_id"}
                 /\ \/ PriorityAccepted(l[i].items[1])
                    \/ l[i].items[1].t = "list" /\ PlainEntries(l[i].items[1].items)
PlainDocument == d.t = "list" /\ PlainEntries(d.items)

\* equal names, priorities, number and order of children at every level
RECURSIVE SameStructure(_, _)
SameStructure(x, y) ==
    /\ x.name = y.name
    /\ x.priority = y.priority
    /\ Len(x.checklist) = Len(y.checklist)
    /\ \A i \in 1..Len(x.checklist) : SameStructure(x.checklist[i], y.checklist[i])

\* C2: a tree built from text and priority entries only is reconstructed by
\* Task(data=list(tree)) with the same names, priorities and children.
C2_RoundTrip ==
    (t2 /= NotParsed /\ pushes = 0 /\ PlainDocument) =>
        t2.ok /\ SameStructure(t, t2.task)

\* C3: is_new() returns a boolean, true exactly when no named task of the
\* tree has an id.
C3_IsNewBoolean ==
    LET tree == IF entry = "main" THEN Parsed.task ELSE t
    IN isnew /= NotCalled =>
        /\ ~isnew.raised
        /\ isnew.value <=> \A p \in NamedPaths(tree) : NodeAt(tree, p).id = NoneV

\* a serialized value with an {"id": text} or {"checklist_id": text} entry
RECURSIVE HasTextIdEntry(_)
HasTextIdEntry(l) ==
    \E i \in 1..Len(l) :
      /\ l[i].t = "dict" /\ l[i].n = 1
      /\ \/ l[i].s \in {"id", "checklist_id"} /\ l[i].items[1].t = "str"
         \/ l[i].items[1].t = "list" /\ HasTextIdEntry(l[i].items[1].items)

\* C4: the serialization of a pushed tree, with its {"id": v} and
\* {"checklist_id": v} entries, is constructed again without error into an
\* equal tree.
C4_RereadPushed ==
    (/\ t2 /= NotParsed /\ HasTextIdEntry(out.items)
     /\ d.t = "list" /\ NoReservedNames(d.items)) =>
        t2.ok /\ t2.task = t

\* C5: the command run on a document that parses to a non-empty tree without
\* ids, with a user who does not decline and a service that answers, pushes
\* the tree, prints list(t) and ends with exit code 0.
C5_PushCommandSucceeds ==
    (/\ entry = "main" /\ pc = "exited" /\ exc /= "RemoteError"
     /\ Truthy(d) /\ Parsed.ok
     /\ \A p \in Paths(Parsed.task) : NodeAt(Parsed.task, p).id = NoneV
     /\ ~Declines(stdin)) =>
        /\ exitcode = 0
        /\ pushes = 1
        /\ out = List(Iter(t))

\* C6: in the command, a request is sent only after the document decoded to a
\* non-empty value, construction succeeded, is_new() returned true and the
\* user did not decline; a run with an empty document, a parse error, an
\* already pushed task or a declining user ends non-zero with no request sent.
C6_NoCallBeforeChecks ==
    entry = "main" =>
      /\ calls /= <<>> =>
           /\ Truthy(d) /\ built = "ok"
           /\ isnew /= NotCalled /\ ~isnew.raised /\ isnew.value
           /\ ~Declines(stdin)
      /\ (/\ pc = "exited"
          /\ \/ ~Truthy(d)
             \/ built = "raised"
             \/ built = "ok" /\ \E p \in NamedPaths(Parsed.task) :
                                   NodeAt(Parsed.task, p).id /= NoneV
             \/ Declines(stdin)) =>
           exitcode > 0 /\ calls = <<>>

\* a run of the command that met a parse error
C6_Witness ==
    /\ entry = "main" /\ pc = "exited" /\ Truthy(d) /\ built = "raised"
    /\ exitcode = 1 /\ calls = <<>>

\* the task whose push sends the request, and the request's place in that push
Owner(c) == IF c.op = "createTask" THEN c.path ELSE Parent(c.path)
Rank(c) == IF c.op = "createTask" THEN 0 ELSE c.path[Len(c.path)]
\* p comes before q in the pre-order of the tree
PathBefore(p, q) ==
    \/ Len(p) < Len(q) /\ SubSeq(q, 1, Len(p)) = p
    \/ \E k \in 1..Len(p) :
         /\ k <= Len(q) /\ p[k] < q[k]
         /\ SubSeq(p, 1, k - 1) = SubSeq(q, 1, k - 1)
CallBefore(a, b) ==
    \/ PathBefore(Owner(a), Owner(b))
    \/ Owner(a) = Owner(b) /\ Rank(a) < Rank(b)

RECURSIVE NamedUpTo(_, _)
NamedUpTo(cl, i) ==
    IF i = 0 THEN 0 ELSE NamedUpTo(cl, i - 1) + (IF Named(cl[i]) THEN 1 ELSE 0)

\* C8: after a push whose requests all succeeded, the j-th named child of a
\* named task T holds the id of the j-th item created under T, no index error
\* was raised, and unnamed children have no request and no checklist_id.
C8_ChecklistIds ==
    (/\ Ended /\ pushes = 1 /\ exc /= "RemoteError"
     /\ d.t = "list" /\ NoReservedNames(d.items)) =>
      /\ exc /= "IndexError"
      /\ \A p \in NamedPaths(t) :
           LET T == NodeAt(t, p) IN
           \A i \in 1..Len(T.checklist) :
             IF Named(T.checklist[i])
             THEN \E k \in 1..Len(remote.tasks) :
                    /\ remote.tasks[k].id = T.id
                    /\ NamedUpTo(T.checklist, i) <= Len(remote.tasks[k].checklist)
                    /\ T.checklist[i].checklist_id =
                         remote.tasks[k].checklist[NamedUpTo(T.checklist, i)]
             ELSE /\ T.checklist[i].checklist_id = NoneV
                  /\ \A c \in 1..Len(calls) :
                       ~(calls[c].op = "createChecklistItem" /\ calls[c].path = p \o <<i>>)

\* C9: an id or checklist_id that holds a value is never changed (shown on
\* documents of plain task names, which carry no identifier of their own).
C9_AssignedOnce ==
    [][(built = "ok" /\ built' = "ok" /\ d.t = "list" /\ NoReservedNames(d.items)) =>
         \A p \in Paths(t) : \A f \in {"id", "checklist_id"} :
           NodeAt(t, p)[f] /= NoneV => NodeAt(t', p)[f] = NodeAt(t, p)[f]]_vars

\* the requests of kind op sent for the task at path p
CallsFor(op, p) == {c \in 1..Len(calls) : calls[c].op = op /\ calls[c].path = p}

\* C10: a push whose requests all succeed sends exactly one createTask per
\* named task, exactly one createChecklistItem per named child of a named
\* task and nothing else, and leaves the root's identifiers and the
\* checklist_id of the root's children as they were.
C10_OneCallEach ==
    (/\ Ended /\ pushes = 1 /\ exc /= "RemoteError"
     /\ d.t = "list" /\ NoReservedNames(d.items)) =>
      /\ \A p \in Paths(t) :
           /\ Cardinality(CallsFor("createTask", p)) =
                (IF Named(NodeAt(t, p)) THEN 1 ELSE 0)
           /\ Cardinality(CallsFor("createChecklistItem", p)) =
                (IF p /= <<>> /\ Named(NodeAt(t, p)) /\ Named(NodeAt(t, Parent(p)))
                 THEN 1 ELSE 0)
      /\ t.id = Parsed.task.id /\ t.checklist_id = Parsed.task.checklist_id
      /\ \A i \in 1..Len(t.checklist) :
           t.checklist[i].checklist_id = Parsed.task.checklist[i].checklist_id

====
